---- MODULE Spec2Model ----
(***************************************************************************)
(* Cross-platform reconciliation engine of CleanLog                        *)
(* (src/modules/finance_etl.py): amount normalisation, record extraction,  *)
(* the greedy fuzzy matcher, the consistency checker and the multi-file    *)
(* batch driver.                                                           *)
(*                                                                         *)
(* Encoding of pandas values.                                              *)
(*   - A cell is a sequence: <<>> is the absent marker pd.NA, <<v>> holds  *)
(*     the value v.                                                        *)
(*   - A string is a sequence of one-character strings (header names and   *)
(*     platform ids are plain TLA+ strings).                               *)
(*   - Amounts are integers counted in cents, timestamps integers counted  *)
(*     in seconds.                                                         *)
(*   - A similarity is the exact fraction [num, den]; thresholds are       *)
(*     percentages and compared by cross-multiplication.                   *)
(*   - A DataFrame is a sequence of rows; a row of a matcher result also   *)
(*     carries its pandas index label and match_status.                    *)
(***************************************************************************)
EXTENDS Integers, Sequences, FiniteSets, TLC

VARIABLES
    entry,              \* the function the run entered
    pc,                 \* position inside the running function
    error,              \* exception that ended the run, "" when none
    df,                 \* table handed to fuzzy_match / consistency_check
    i, j,               \* loop counters of fuzzy_match (0-based, as in the code)
    matched_indices,    \* set of row positions paired with high confidence
    suspected_indices,  \* set of row positions paired with lower confidence
    matched, suspected, unilateral,  \* the three returned partitions
    checked,            \* table handed to consistency_check
    result,             \* the dictionary consistency_check builds
    series,             \* raw amount column handed to _parse_amount
    direction_series,   \* direction column handed to _parse_amount, or None
    vals,               \* the series _parse_amount returns
    raw,                \* decoded table handed to extract_with_auto_schema
    filename,           \* its advisory file name
    extracted,          \* what extract_with_auto_schema returned or raised
    platform_id,        \* platform id handed to _build_mapping
    kwargs,             \* keyword arguments given to CrossPlatformReconciler()
    file_paths,         \* the files of a batch
    next_file,          \* position of run_finance_etl in file_paths (0-based)
    all_dfs,            \* tables extracted so far
    all_mappings,       \* their file, platform and column mapping
    report,             \* the dictionary run_finance_etl returns
    whole,              \* a table whose time buckets are matched one by one
    pending,            \* the runs of fuzzy_match still to make, as row positions
    outcomes            \* what each finished run gave the rows it was given

amount_vars == <<series, direction_series, vals>>

extract_vars == <<raw, filename, extracted, platform_id>>

config_vars == <<kwargs>>

batch_vars == <<file_paths, next_file, all_dfs, all_mappings, report>>

bucket_vars == <<whole, pending, outcomes>>

\* what the matcher and the consistency checker leave alone
others == <<config_vars, amount_vars, extract_vars, batch_vars, bucket_vars>>

vars == <<entry, pc, error, df, i, j, matched_indices, suspected_indices,
          matched, suspected, unilateral, checked, result, others>>

matcher == <<df, i, j, matched_indices, suspected_indices,
             matched, suspected, unilateral>>

-----------------------------------------------------------------------------
(* Bounds of the model *)

MaxLen == 3

-----------------------------------------------------------------------------
(* Cells *)

NA == <<>>
Cell(v) == <<v>>
IsNA(c) == c = NA
Val(c) == c[1]

Abs(x) == IF x < 0 THEN -x ELSE x

STANDARD_SCHEMA ==
    <<"timestamp", "amount", "currency", "category", "account",
      "counterparty", "transaction_id", "raw_source">>

Range(s) == {s[n] : n \in DOMAIN s}

-----------------------------------------------------------------------------
(* difflib.SequenceMatcher(None, a, b).ratio() as _similarity uses it *)

RECURSIVE CommonRun(_, _, _, _, _, _)
CommonRun(a, b, p, q, ahi, bhi) ==
    IF p > ahi \/ q > bhi THEN 0
    ELSE IF a[p] # b[q] THEN 0
    ELSE 1 + CommonRun(a, b, p + 1, q + 1, ahi, bhi)

\* Longest common block of a[alo..ahi] and b[blo..bhi]; of the longest ones
\* the block starting earliest in a, and of those earliest in b.
find_longest_match(a, b, alo, ahi, blo, bhi) ==
    LET size(p, q) == CommonRun(a, b, p, q, ahi, bhi)
        pairs == (alo..ahi) \X (blo..bhi)
        best == CHOOSE k \in {size(pq[1], pq[2]) : pq \in pairs} :
                    \A pq \in pairs : size(pq[1], pq[2]) <= k
        bestp == CHOOSE p \in alo..ahi :
                    /\ \E q \in blo..bhi : size(p, q) = best
                    /\ \A p2 \in alo..(p - 1) :
                          \A q \in blo..bhi : size(p2, q) # best
        bestq == CHOOSE q \in blo..bhi :
                    /\ size(bestp, q) = best
                    /\ \A q2 \in blo..(q - 1) : size(bestp, q2) # best
    IN  [a |-> bestp, b |-> bestq, size |-> best]

RECURSIVE MatchingCount(_, _, _, _, _, _)
MatchingCount(a, b, alo, ahi, blo, bhi) ==
    IF alo > ahi \/ blo > bhi THEN 0
    ELSE LET m == find_longest_match(a, b, alo, ahi, blo, bhi)
         IN  IF m.size = 0 THEN 0
             ELSE m.size
                  + MatchingCount(a, b, alo, m.a - 1, blo, m.b - 1)
                  + MatchingCount(a, b, m.a + m.size, ahi, m.b + m.size, bhi)

ratio(a, b) ==
    IF Len(a) + Len(b) = 0 THEN [num |-> 1, den |-> 1]
    ELSE [num |-> 2 * MatchingCount(a, b, 1, Len(a), 1, Len(b)),
          den |-> Len(a) + Len(b)]

IsSpace(ch) == ch = " "

RECURSIVE lstrip(_)
lstrip(s) == IF s # <<>> /\ IsSpace(Head(s)) THEN lstrip(Tail(s)) ELSE s

RECURSIVE rstrip(_)
rstrip(s) ==
    IF s # <<>> /\ IsSpace(s[Len(s)]) THEN rstrip(SubSeq(s, 1, Len(s) - 1))
    ELSE s

strip(s) == rstrip(lstrip(s))

\* _similarity(a, b) on two cells
_similarity(a, b) ==
    IF IsNA(a) \/ IsNA(b) THEN [num |-> 0, den |-> 1]
    ELSE LET sa == strip(Val(a))
             sb == strip(Val(b))
         IN  IF sa = <<>> \/ sb = <<>>
             THEN IF sa = sb THEN [num |-> 1, den |-> 1]
                  ELSE [num |-> 0, den |-> 1]
             ELSE ratio(sa, sb)

-----------------------------------------------------------------------------
(* Values of the variables a run does not use *)

None == <<>>

AmountIdle ==
    /\ series = <<>>
    /\ direction_series = None
    /\ vals = <<>>

ExtractIdle ==
    /\ raw = [columns |-> {}, rows |-> <<>>]
    /\ filename = <<>>
    /\ extracted = None
    /\ platform_id = ""

\* CrossPlatformReconciler() as run_finance_etl builds it, line 405
ConfigIdle == kwargs = <<>>

BucketIdle ==
    /\ whole = <<>>
    /\ pending = <<>>
    /\ outcomes = <<>>

BatchIdle ==
    /\ file_paths = <<>>
    /\ next_file = 0
    /\ all_dfs = <<>>
    /\ all_mappings = <<>>
    /\ report = None

-----------------------------------------------------------------------------
(* Matching thresholds: CrossPlatformReconciler.__init__ and fuzzy_match *)

amount_tolerance == 1            \* 0.01, in cents
time_window_minutes == 5
name_similarity_threshold == 60  \* 0.6, in percent
high_confidence == 90            \* the literal 0.9 of fuzzy_match, in percent

\* sim >= pct / 100
AtLeast(sim, pct) == 100 * sim.num >= pct * sim.den

-----------------------------------------------------------------------------
(* Canonical tables given to the matcher *)

NaN == Cell(<<"<nan>">>)         \* the float nan read from an empty CSV cell

NameX == <<"a", "b", "c", "d", "e", "f", "g", "h", "i", "j">>
NameY == <<"a", "b", "c", "d", "e", "f", "g", "h", "i", "x">>
NameW == <<"e", "f", "g", "h", "i", "j", "w", "w", "w", "w">>
Blank == <<" ">>

\* similarities: X-Y 0.9, X-W 0.6, Y-W 0.5
Counterparties == {NA, Cell(NameX), Cell(NameY), Cell(NameW)}

\* <<timestamp, amount>> of the input records
Stamps == {<<0, 0>>, <<300, 1>>, <<601, 0>>, <<0, 2>>}

CanonicalRow(ts, amt, cp) ==
    [timestamp |-> Cell(ts), amount |-> Cell(amt), currency |-> Cell(<<"CNY">>),
     category |-> NA, account |-> Cell(<<"Bank">>), counterparty |-> cp,
     transaction_id |-> NA, raw_source |-> Cell(<<"bank">>)]

Records == {CanonicalRow(st[1], st[2], cp) : st \in Stamps, cp \in Counterparties}

Tables == UNION {[1..n -> Records] : n \in 0..MaxLen}

-----------------------------------------------------------------------------
(* CrossPlatformReconciler.fuzzy_match *)

\* bool(x) of a cell value in `x or ""`: pd.NA has no truth value
BoolRaises(c) == IsNA(c)

\* str(x or "") for a cell whose truth value exists
StrOr(c) ==
    IF c = NaN THEN Cell(<<"n", "a", "n">>)
    ELSE c

\* the values name_i and name_j can take
NameCells == {StrOr(c) : c \in (Counterparties \cup {NaN, Cell(Blank)}) \ {NA}}

row(n) == df[n + 1]

Assigned_MatchedOnly(n) == n \in matched_indices

Assigned(n) == n \in matched_indices \/ n \in suspected_indices

AmountTooFar_Doubled(ri, rj) ==
    Abs(Val(ri.amount) - Val(rj.amount)) > 2 * amount_tolerance

AmountTooFar(ri, rj) ==
    Abs(Val(ri.amount) - Val(rj.amount)) > amount_tolerance

TimeTooFar_Strict(ri, rj) ==
    Abs(Val(ri.timestamp) - Val(rj.timestamp)) >= time_window_minutes * 60

TimeTooFar(ri, rj) ==
    Abs(Val(ri.timestamp) - Val(rj.timestamp)) > time_window_minutes * 60

\* _similarity over the names of the model, computed once
SimilarityOf == [a \in NameCells, b \in NameCells |-> _similarity(a, b)]

sim(ri, rj) == SimilarityOf[StrOr(ri.counterparty), StrOr(rj.counterparty)]

NameTooFar_Strict(ri, rj) ==
    100 * sim(ri, rj).num <= name_similarity_threshold * sim(ri, rj).den

NameTooFar(ri, rj) == ~AtLeast(sim(ri, rj), name_similarity_threshold)

HighConfidence_Strict(ri, rj) ==
    100 * sim(ri, rj).num > high_confidence * sim(ri, rj).den

HighConfidence(ri, rj) == AtLeast(sim(ri, rj), high_confidence)

\* a row of a returned partition: the input row, its index label, its status
Tagged(n, status) ==
    [f \in Range(STANDARD_SCHEMA) \cup {"index", "match_status"} |->
        IF f = "index" THEN n
        ELSE IF f = "match_status" THEN status
        ELSE row(n)[f]]

RECURSIVE tag_from(_, _, _)
tag_from(n, indices, status) ==
    IF n >= Len(df) THEN <<>>
    ELSE IF n \in indices
         THEN <<Tagged(n, status)>> \o tag_from(n + 1, indices, status)
         ELSE tag_from(n + 1, indices, status)

tag_df(indices, status) == tag_from(0, indices, status)

unilateral_indices_NotMatched == (0..(Len(df) - 1)) \ matched_indices

unilateral_indices == ((0..(Len(df) - 1)) \ matched_indices) \ suspected_indices

Raise(e) ==
    /\ pc' = "raised"
    /\ error' = e

\* lines 233-246: the short-table return, or the set-up of the scan
FuzzyMatchEnter ==
    /\ pc = "fm_call"
    /\ IF Len(df) < 2
       THEN /\ matched' = <<>>
            /\ suspected' = <<>>
            /\ unilateral' = tag_df(0..(Len(df) - 1), "unilateral")
            /\ pc' = "fm_ret"
            /\ UNCHANGED <<i, j, matched_indices, suspected_indices>>
       ELSE /\ matched_indices' = {}
            /\ suspected_indices' = {}
            /\ i' = 0
            /\ pc' = "fm_outer"
            /\ UNCHANGED <<j, matched, suspected, unilateral>>
    /\ UNCHANGED <<others, checked, result, entry, error, df>>

\* line 248, loop exhausted
OuterDone ==
    /\ pc = "fm_outer"
    /\ i >= Len(df)
    /\ pc' = "fm_tag"
    /\ UNCHANGED <<others, checked, result, entry, error, df, i, j, matched_indices, suspected_indices,
                   matched, suspected, unilateral>>

\* lines 249-250
OuterSkip ==
    /\ pc = "fm_outer"
    /\ i < Len(df)
    /\ Assigned(i)
    /\ i' = i + 1
    /\ UNCHANGED <<others, checked, result, entry, pc, error, df, j, matched_indices, suspected_indices,
                   matched, suspected, unilateral>>

\* lines 251-256: read row i, start the scan of the later rows
OuterBegin ==
    /\ pc = "fm_outer"
    /\ i < Len(df)
    /\ ~Assigned(i)
    /\ IF BoolRaises(row(i).counterparty)
       THEN /\ Raise("TypeError")
            /\ UNCHANGED j
       ELSE /\ j' = i + 1
            /\ pc' = "fm_inner"
            /\ UNCHANGED error
    /\ UNCHANGED <<others, checked, result, entry, df, i, matched_indices, suspected_indices,
                   matched, suspected, unilateral>>

\* line 256, no partner found for i
InnerDone ==
    /\ pc = "fm_inner"
    /\ j >= Len(df)
    /\ i' = i + 1
    /\ pc' = "fm_outer"
    /\ UNCHANGED <<others, checked, result, entry, error, df, j, matched_indices, suspected_indices,
                   matched, suspected, unilateral>>

\* lines 257-258
InnerSkip ==
    /\ pc = "fm_inner"
    /\ j < Len(df)
    /\ Assigned(j)
    /\ j' = j + 1
    /\ UNCHANGED <<others, checked, result, entry, pc, error, df, i, matched_indices, suspected_indices,
                   matched, suspected, unilateral>>

\* lines 259-265: str(row_j.get("counterparty", "") or "") raises on pd.NA,
\* and so does the truth value of a comparison with an absent amount
ScanRaises(ri, rj) ==
    \/ BoolRaises(rj.counterparty)
    \/ BoolRaises(ri.amount)
    \/ BoolRaises(rj.amount)

InnerRaise ==
    /\ pc = "fm_inner"
    /\ j < Len(df)
    /\ ~Assigned(j)
    /\ ScanRaises(row(i), row(j))
    /\ Raise("TypeError")
    /\ UNCHANGED <<others, checked, result, entry, df, i, j, matched_indices, suspected_indices,
                   matched, suspected, unilateral>>

\* lines 264-273: one of the three tests rejects j
InnerReject ==
    /\ pc = "fm_inner"
    /\ j < Len(df)
    /\ ~Assigned(j)
    /\ ~ScanRaises(row(i), row(j))
    /\ \/ AmountTooFar(row(i), row(j))
       \/ TimeTooFar(row(i), row(j))
       \/ NameTooFar(row(i), row(j))
    /\ j' = j + 1
    /\ UNCHANGED <<others, checked, result, entry, pc, error, df, i, matched_indices, suspected_indices,
                   matched, suspected, unilateral>>

\* lines 275-281: i and j are paired, the scan for i ends
InnerPair ==
    /\ pc = "fm_inner"
    /\ j < Len(df)
    /\ ~Assigned(j)
    /\ ~ScanRaises(row(i), row(j))
    /\ ~AmountTooFar(row(i), row(j))
    /\ ~TimeTooFar(row(i), row(j))
    /\ ~NameTooFar(row(i), row(j))
    /\ IF HighConfidence(row(i), row(j))
       THEN /\ matched_indices' = matched_indices \cup {i, j}
            /\ UNCHANGED suspected_indices
       ELSE /\ suspected_indices' = suspected_indices \cup {i, j}
            /\ UNCHANGED matched_indices
    /\ i' = i + 1
    /\ pc' = "fm_outer"
    /\ UNCHANGED <<others, checked, result, entry, error, df, j, matched, suspected, unilateral>>

\* lines 283-294
TagStep ==
    /\ pc = "fm_tag"
    /\ matched' = tag_df(matched_indices, "matched")
    /\ suspected' = tag_df(suspected_indices, "suspected_duplicate")
    /\ unilateral' = tag_df(unilateral_indices, "unilateral")
    /\ pc' = "fm_ret"
    /\ UNCHANGED <<others, checked, result, entry, error, df, i, j, matched_indices, suspected_indices>>

FuzzyMatchStep ==
    \/ FuzzyMatchEnter
    \/ OuterDone
    \/ OuterSkip
    \/ OuterBegin
    \/ InnerDone
    \/ InnerSkip
    \/ InnerRaise
    \/ InnerReject
    \/ InnerPair
    \/ TagStep

-----------------------------------------------------------------------------
(* CrossPlatformReconciler.consistency_check *)

balance_tolerance == 10000       \* the literal 100 of line 326, in cents

RECURSIVE SumAmount(_)
\* df["amount"].sum(): absent amounts are skipped
SumAmount(t) ==
    IF t = <<>> THEN 0
    ELSE (IF IsNA(Head(t).amount) THEN 0 ELSE Val(Head(t).amount))
         + SumAmount(Tail(t))

HasMatchStatus(t) == t # <<>> /\ "match_status" \in DOMAIN t[1]

CountStatus_Presence(t, status) ==
    IF \E n \in DOMAIN t : t[n].match_status = status THEN 1 ELSE 0

CountStatus(t, status) ==
    Cardinality({n \in DOMAIN t : t[n].match_status = status})

EmptyResult_Unbalanced ==
    [amount_balanced |-> FALSE, total_amount |-> 0, unilateral_count |-> 0,
     suspected_duplicate_count |-> 0, matched_count |-> 0, warnings |-> <<>>]

EmptyResult ==
    [amount_balanced |-> TRUE, total_amount |-> 0, unilateral_count |-> 0,
     suspected_duplicate_count |-> 0, matched_count |-> 0, warnings |-> <<>>]

\* a net amount equal to the tolerance counts as unbalanced
WithWarnings_Inclusive(r, len) ==
    LET unbalanced == Abs(r.total_amount) >= balance_tolerance
        w1 == IF unbalanced THEN <<<<"unbalanced", r.total_amount>>>> ELSE <<>>
        w2 == IF 2 * r.unilateral_count > len THEN <<<<"unilateral_ratio">>>>
              ELSE <<>>
    IN  [r EXCEPT !.amount_balanced = ~unbalanced, !.warnings = w1 \o w2]

\* unilateral records making up exactly half count as too many
WithWarnings_AtLeastHalf(r, len) ==
    LET unbalanced == Abs(r.total_amount) > balance_tolerance
        w1 == IF unbalanced THEN <<<<"unbalanced", r.total_amount>>>> ELSE <<>>
        w2 == IF 2 * r.unilateral_count >= len THEN <<<<"unilateral_ratio">>>>
              ELSE <<>>
    IN  [r EXCEPT !.amount_balanced = ~unbalanced, !.warnings = w1 \o w2]

\* lines 326-331 on a result whose total and counts are set
WithWarnings(r, len) ==
    LET unbalanced == Abs(r.total_amount) > balance_tolerance
        w1 == IF unbalanced THEN <<<<"unbalanced", r.total_amount>>>> ELSE <<>>
        w2 == IF 2 * r.unilateral_count > len THEN <<<<"unilateral_ratio">>>>
              ELSE <<>>
    IN  [r EXCEPT !.amount_balanced = ~unbalanced, !.warnings = w1 \o w2]

\* lines 302-316, and 322-333 when the table carries match_status
ConsistencyEnter ==
    /\ pc = "cc_call"
    /\ IF checked = <<>>
       THEN /\ result' = EmptyResult
            /\ pc' = "cc_ret"
            /\ UNCHANGED df
       ELSE IF HasMatchStatus(checked)
       THEN /\ result' = WithWarnings(
                   [EmptyResult EXCEPT
                       !.total_amount = SumAmount(checked),
                       !.matched_count = CountStatus(checked, "matched"),
                       !.suspected_duplicate_count =
                           CountStatus(checked, "suspected_duplicate"),
                       !.unilateral_count = CountStatus(checked, "unilateral")],
                   Len(checked))
            /\ pc' = "cc_ret"
            /\ UNCHANGED df
       ELSE /\ result' = [EmptyResult EXCEPT !.total_amount = SumAmount(checked)]
            /\ df' = checked
            /\ pc' = "fm_call"
    /\ UNCHANGED <<others, entry, error, checked, i, j, matched_indices,
                   suspected_indices, matched, suspected, unilateral>>

\* lines 317-320 and 326-333: fuzzy_match has returned to consistency_check
ConsistencyResume ==
    /\ pc = "fm_ret"
    /\ entry = "consistency_check"
    /\ result' = WithWarnings(
            [result EXCEPT
                !.matched_count = Len(matched),
                !.suspected_duplicate_count = Len(suspected),
                !.unilateral_count = Len(unilateral)],
            Len(checked))
    /\ pc' = "cc_ret"
    /\ UNCHANGED <<others, entry, error, checked, matcher>>

InitMatch ==
    /\ entry = "fuzzy_match"
    /\ pc = "fm_call"
    /\ error = ""
    /\ df \in Tables
    /\ i = 0
    /\ j = 0
    /\ matched_indices = {}
    /\ suspected_indices = {}
    /\ matched = <<>>
    /\ suspected = <<>>
    /\ unilateral = <<>>
    /\ checked = <<>>
    /\ result = EmptyResult
    /\ AmountIdle
    /\ ExtractIdle
    /\ BatchIdle
    /\ ConfigIdle
    /\ BucketIdle

SpecMatch == InitMatch /\ [][FuzzyMatchStep]_vars

\* inputs: tables without match_status, and tables that carry one; the
\* amounts, in cents, add up to sums on both sides of the tolerance
CheckAmounts == {5000, 5001, -5000}

CheckRecords ==
    {CanonicalRow(0, amt, cp) :
        amt \in CheckAmounts, cp \in {NA, Cell(NameX), Cell(NameW)}}

Statuses == {"matched", "suspected_duplicate", "unilateral"}

\* the n-th row of a table that carries match_status
WithStatus(r, n, status) ==
    [f \in DOMAIN r \cup {"index", "match_status"} |->
        IF f = "index" THEN n - 1
        ELSE IF f = "match_status" THEN status
        ELSE r[f]]

TaggedTables ==
    UNION {{[n \in 1..len |->
                WithStatus(CanonicalRow(0, t[n][1], Cell(NameX)), n, t[n][2])] :
                t \in [1..len -> CheckAmounts \X Statuses]} :
           len \in 1..MaxLen}

CheckTables == UNION {[1..n -> CheckRecords] : n \in 0..MaxLen} \cup TaggedTables

InitCheck ==
    /\ entry = "consistency_check"
    /\ pc = "cc_call"
    /\ error = ""
    /\ checked \in CheckTables
    /\ df = <<>>
    /\ i = 0
    /\ j = 0
    /\ matched_indices = {}
    /\ suspected_indices = {}
    /\ matched = <<>>
    /\ suspected = <<>>
    /\ unilateral = <<>>
    /\ result = EmptyResult
    /\ AmountIdle
    /\ ExtractIdle
    /\ BatchIdle
    /\ ConfigIdle
    /\ BucketIdle

NextCheck ==
    \/ ConsistencyEnter
    \/ FuzzyMatchStep
    \/ ConsistencyResume

SpecCheck == InitCheck /\ [][NextCheck]_vars

-----------------------------------------------------------------------------
(* CrossPlatformReconciler._parse_amount *)

MaxSeries == 1
MaxAmountLen == 2

Yen == "Y"                       \* stands for the currency glyph U+00A5

Digits == <<"0", "1", "2", "3", "4", "5", "6", "7", "8", "9">>

IsDigit(ch) == ch \in Range(Digits)

DigitValue(ch) == (CHOOSE n \in DOMAIN Digits : Digits[n] = ch) - 1

\* Series.astype(str) on one cell: the float nan reads "nan"
astype_str(c) == IF c = NaN THEN <<"n", "a", "n">> ELSE Val(c)

RECURSIVE remove(_, _)
\* str.replace(ch, "", regex=False)
remove(s, ch) ==
    IF s = <<>> THEN <<>>
    ELSE IF Head(s) = ch THEN remove(Tail(s), ch)
    ELSE <<Head(s)>> \o remove(Tail(s), ch)

RECURSIVE DecimalValue(_)
DecimalValue(s) ==
    IF s = <<>> THEN 0
    ELSE 10 * DecimalValue(SubSeq(s, 1, Len(s) - 1)) + DigitValue(s[Len(s)])

NotANumber == <<>>

\* pd.to_numeric(s, errors="coerce") on one text: an optional minus sign and
\* digits give the number (in cents), anything else is not a number
to_numeric(s) ==
    LET negative == s # <<>> /\ Head(s) = "-"
        body == IF negative THEN Tail(s) ELSE s
    IN  IF body # <<>> /\ \A n \in DOMAIN body : IsDigit(body[n])
        THEN Cell((IF negative THEN -1 ELSE 1) * DecimalValue(body) * 100)
        ELSE NotANumber

fillna0(c) == IF c = NotANumber THEN Cell(0) ELSE c

\* lines 132-133 on one cell
CleanAmount(c) ==
    Val(fillna0(to_numeric(remove(remove(astype_str(c), ","), Yen))))

\* the alternatives of the pattern of line 138
InflowKeywords ==
    {<<"shou", "ru">>, <<"shou", "dao">>, <<"shou", "kuan">>, <<"dai">>,
     <<"shou">>}

Contains(s, kw) ==
    \E n \in 1..(Len(s) - Len(kw) + 1) : SubSeq(s, n, n + Len(kw) - 1) = kw

\* direction.str.contains(pattern) on one cell
IsInflow(c) == \E kw \in InflowKeywords : Contains(astype_str(c), kw)

Outflow_Negated(v) == -v

\* line 139
Outflow(v) == -Abs(v)

\* vals.where(cond, other) on one cell, lines 137-140
Signed(v, d) == IF IsInflow(d) THEN v ELSE Outflow(v)

_parse_amount(ser, dir) ==
    IF dir = None
    THEN [n \in DOMAIN ser |-> Cell(CleanAmount(ser[n]))]
    ELSE [n \in DOMAIN ser |->
            Cell(Signed(CleanAmount(ser[n]), Val(dir)[n]))]

ParseAmount ==
    /\ pc = "pa_call"
    /\ vals' = _parse_amount(series, direction_series)
    /\ pc' = "pa_ret"
    /\ UNCHANGED <<entry, error, matcher, checked, result, series,
                   direction_series, bucket_vars, config_vars, extract_vars, batch_vars>>

\* inputs
AmountChars == {"5", "-", ",", Yen}

AmountTexts == UNION {[1..n -> AmountChars] : n \in 0..MaxAmountLen}

AmountCells == {NaN} \cup {Cell(t) : t \in AmountTexts}

DirectionCells ==
    {NaN, Cell(<<"shou", "ru">>), Cell(<<"zhi", "chu">>), Cell(<<"dai">>),
     Cell(<<"jie">>), Cell(<<"bu", "ji", "shou", "zhi">>)}

MatcherIdle ==
    /\ df = <<>>
    /\ i = 0
    /\ j = 0
    /\ matched_indices = {}
    /\ suspected_indices = {}
    /\ matched = <<>>
    /\ suspected = <<>>
    /\ unilateral = <<>>
    /\ checked = <<>>
    /\ result = EmptyResult

InitAmount ==
    /\ entry = "_parse_amount"
    /\ pc = "pa_call"
    /\ error = ""
    /\ MatcherIdle
    /\ ExtractIdle
    /\ BatchIdle
    /\ ConfigIdle
    /\ BucketIdle
    /\ series \in UNION {[1..n -> AmountCells] : n \in 0..MaxSeries}
    /\ direction_series \in
          {None} \cup {Cell(d) : d \in [1..Len(series) -> DirectionCells]}
    /\ vals = <<>>

SpecAmount == InitAmount /\ [][ParseAmount]_vars

-----------------------------------------------------------------------------
(* PLATFORM_SCHEMAS.  Header names are written in pinyin:                  *)
(*   jiaoyi_shijian  line 42, 50      jine          line 35, 43, 51        *)
(*   shouru_jine, zhichu_jine  line 51, 208, 209                           *)
(*   daifang_jine, jiefang_jine  line 208, 209     shou/zhi  line 36, 44   *)

Platforms == <<"alipay", "wechat", "bank">>

SchemaFields ==
    <<"timestamp", "amount", "direction", "category", "counterparty",
      "transaction_id">>

PLATFORM_SCHEMAS ==
    [alipay |->
        [timestamp |-> <<"chuangjian_shijian", "jiaoyi_chuangjian_shijian",
                         "fukuan_shijian">>,
         amount |-> <<"jine">>,
         direction |-> <<"shou/zhi", "shouru/zhichu">>,
         category |-> <<"leixing", "jiaoyi_leixing">>,
         counterparty |-> <<"jiaoyi_duifang", "duifang_zhanghu">>,
         transaction_id |-> <<"dingdanhao", "jiaoyi_dingdanhao">>],
     wechat |->
        [timestamp |-> <<"jiaoyi_shijian">>,
         amount |-> <<"jine(yuan)", "jine">>,
         direction |-> <<"shou/zhi">>,
         category |-> <<"jiaoyi_leixing">>,
         counterparty |-> <<"jiaoyi_duifang", "shangpin">>,
         transaction_id |-> <<"jiaoyi_danhao", "shanghu_danhao">>],
     bank |->
        [timestamp |-> <<"jiaoyi_shijian", "jiaoyi_riqi", "jizhang_shijian",
                         "jiaoyi_riqi_shijian">>,
         amount |-> <<"jine", "jiaoyi_jine", "shouru_jine", "zhichu_jine">>,
         direction |-> <<"shoufu_biaozhi", "jiedai_biaozhi">>,
         category |-> <<"zhaiyao", "jiaoyi_zhaiyao", "jiaoyi_leixing">>,
         counterparty |-> <<"duifang_huming", "jiaoyi_duishou",
                            "duifang_zhanghao", "duifang_mingcheng">>,
         transaction_id |-> <<"liushuihao", "jiaoyi_liushuihao",
                              "cankaohao">>]]

\* the last candidate present instead of the first
FirstIn_Last(cands, cols) ==
    IF \E n \in DOMAIN cands : cands[n] \in cols
    THEN cands[CHOOSE n \in DOMAIN cands :
                  /\ cands[n] \in cols
                  /\ \A m \in (n + 1)..Len(cands) : cands[m] \notin cols]
    ELSE ""

\* next((c for c in cands if c in cols), None); "" stands for None
FirstIn(cands, cols) ==
    IF \E n \in DOMAIN cands : cands[n] \in cols
    THEN cands[CHOOSE n \in DOMAIN cands :
                  /\ cands[n] \in cols
                  /\ \A m \in 1..(n - 1) : cands[m] \notin cols]
    ELSE ""

AnyIn(cands, cols) == \E n \in DOMAIN cands : cands[n] \in cols

-----------------------------------------------------------------------------
(* CrossPlatformReconciler._detect_platform *)

UpperCase ==
    <<"A", "B", "C", "D", "E", "F", "G", "H", "I", "J", "K", "L", "M",
      "N", "O", "P", "Q", "R", "S", "T", "U", "V", "W", "X", "Y", "Z">>

LowerCase ==
    <<"a", "b", "c", "d", "e", "f", "g", "h", "i", "j", "k", "l", "m",
      "n", "o", "p", "q", "r", "s", "t", "u", "v", "w", "x", "y", "z">>

\* str.lower() on the letters file names are written with
lower(s) ==
    [n \in DOMAIN s |->
        IF s[n] \in Range(UpperCase)
        THEN LowerCase[CHOOSE m \in DOMAIN UpperCase : UpperCase[m] = s[n]]
        ELSE s[n]]

KwAlipayCn == <<"zhi", "fu", "bao">>
KwAlipay == <<"a", "l", "i", "p", "a", "y">>
KwWechatCn == <<"wei", "xin">>
KwWechat == <<"w", "e", "c", "h", "a", "t">>
KwWx == <<"w", "x">>
KwBank ==
    {<<"b", "a", "n", "k">>, <<"yin", "hang">>,
     <<"b", "a", "n", "k", "c", "a", "r", "d">>, <<"liu", "shui">>}

RECURSIVE FirstProfile(_, _)
\* lines 107-111: the first profile, from position n on, the headers fit
FirstProfile(n, cols) ==
    IF n > Len(Platforms) THEN "bank"
    ELSE LET schema == PLATFORM_SCHEMAS[Platforms[n]]
         IN  IF /\ AnyIn(schema.timestamp, cols)
                /\ AnyIn(schema.amount \o schema.direction, cols)
             THEN Platforms[n]
             ELSE FirstProfile(n + 1, cols)

\* the headers are looked at before the file name
_detect_platform_HeadersFirst(cols, fn) ==
    LET fname == lower(fn)
    IN  IF \E n \in DOMAIN Platforms :
               /\ AnyIn(PLATFORM_SCHEMAS[Platforms[n]].timestamp, cols)
               /\ AnyIn(PLATFORM_SCHEMAS[Platforms[n]].amount
                          \o PLATFORM_SCHEMAS[Platforms[n]].direction, cols)
        THEN FirstProfile(1, cols)
        ELSE IF Contains(fn, KwAlipayCn) \/ Contains(fname, KwAlipay)
        THEN "alipay"
        ELSE IF \/ Contains(fn, KwWechatCn)
                \/ Contains(fname, KwWechat)
                \/ Contains(fname, KwWx)
        THEN "wechat"
        ELSE "bank"

_detect_platform(cols, fn) ==
    LET fname == lower(fn)
    IN  IF Contains(fn, KwAlipayCn) \/ Contains(fname, KwAlipay)
        THEN "alipay"
        ELSE IF \/ Contains(fn, KwWechatCn)
                \/ Contains(fname, KwWechat)
                \/ Contains(fname, KwWx)
        THEN "wechat"
        ELSE IF \E kw \in KwBank : Contains(fname, kw)
        THEN "bank"
        ELSE FirstProfile(1, cols)

-----------------------------------------------------------------------------
(* CrossPlatformReconciler._build_mapping *)

Schema(platform) ==
    IF platform \in Range(Platforms) THEN PLATFORM_SCHEMAS[platform]
    ELSE PLATFORM_SCHEMAS["bank"]

RECURSIVE MapFields(_, _, _, _)
\* lines 120-126 from field n on; a later field overwrites an earlier entry
MapFields(n, schema, cols, mapping) ==
    IF n > Len(SchemaFields) THEN mapping
    ELSE LET std_col == SchemaFields[n]
             c == FirstIn(schema[std_col], cols)
         IN  IF std_col = "direction" \/ c = ""
             THEN MapFields(n + 1, schema, cols, mapping)
             ELSE MapFields(n + 1, schema, cols, (c :> std_col) @@ mapping)

_build_mapping(platform, cols) ==
    MapFields(1, Schema(platform), cols, <<>>)

-----------------------------------------------------------------------------
(* CrossPlatformReconciler.extract_with_auto_schema, lines 177-224: from   *)
(* the decoded table on.  A table is [columns, rows], a row a function     *)
(* from the columns to cells.                                              *)

MaxRows == 2

NaT == <<>>

\* an unreadable cell becomes the epoch instead of NaT
to_datetime_Epoch(c) ==
    IF c # NaN /\ Val(c) # <<>> /\ \A n \in DOMAIN Val(c) : IsDigit(Val(c)[n])
    THEN Cell(DecimalValue(Val(c)))
    ELSE Cell(0)

\* pd.to_datetime(errors="coerce") on one cell: digits read as seconds
to_datetime(c) ==
    IF c = NaN THEN NaT
    ELSE IF Val(c) # <<>> /\ \A n \in DOMAIN Val(c) : IsDigit(Val(c)[n])
    THEN Cell(DecimalValue(Val(c)))
    ELSE NaT

\* line 187-188
platform_labels(platform) ==
    CASE platform = "alipay" -> "Alipay"
      [] platform = "wechat" -> "WeChat"
      [] platform = "bank" -> "Bank"
      [] OTHER -> platform

\* the name column c has after df.rename (line 184)
Renamed(c, mapping) == IF c \in DOMAIN mapping THEN mapping[c] ELSE c

\* df.columns after lines 184-190
ColumnsAfter(cols, mapping) ==
    {Renamed(c, mapping) : c \in cols} \cup {"account", "raw_source", "currency"}

\* the raw column read under the name `name`
SourceOf(name, cols, mapping) ==
    CHOOSE c \in cols : Renamed(c, mapping) = name

\* lines 211-217 on one cell: commas removed, the glyph kept
SplitAmount(c) == Val(fillna0(to_numeric(remove(astype_str(c), ","))))

IncomeColumns == <<"shouru_jine", "daifang_jine">>
ExpenseColumns == <<"zhichu_jine", "jiefang_jine">>

\* lines 199-219: the amount column of the kept rows
AmountColumn(kept, cols, mapping, platform) ==
    LET after == ColumnsAfter(cols, mapping)
        column(name) ==
            [n \in DOMAIN kept |-> kept[n][SourceOf(name, cols, mapping)]]
        dir_col == FirstIn(PLATFORM_SCHEMAS[platform].direction, after)
        inc_col == FirstIn(IncomeColumns, after)
        exp_col == FirstIn(ExpenseColumns, after)
    IN  IF "amount" \in after
        THEN _parse_amount(column("amount"),
                           IF dir_col = "" THEN None
                           ELSE Cell(column(dir_col)))
        ELSE IF platform = "bank"
        THEN [n \in DOMAIN kept |->
                IF inc_col # "" /\ exp_col # ""
                THEN Cell(SplitAmount(column(inc_col)[n])
                          - SplitAmount(column(exp_col)[n]))
                ELSE IF inc_col # ""
                THEN Cell(SplitAmount(column(inc_col)[n]))
                ELSE IF exp_col # ""
                THEN Cell(-SplitAmount(column(exp_col)[n]))
                ELSE Cell(0)]
        ELSE [n \in DOMAIN kept |-> NA]

Returns(table, platform, mapping) ==
    [raised |-> FALSE, error |-> "", table |-> table, platform |-> platform,
     mapping |-> mapping]

Raises_ReturnsEmpty(e) == Returns(<<>>, "unknown", <<>>)

Raises(e) ==
    [raised |-> TRUE, error |-> e, table |-> <<>>, platform |-> "",
     mapping |-> <<>>]

\* {v: k for k, v in rename_map.items()}
Inverse(mapping) ==
    [std \in {mapping[c] : c \in DOMAIN mapping} |->
        CHOOSE c \in DOMAIN mapping : mapping[c] = std]

extract_with_auto_schema(t, fn) ==
    IF t.rows = <<>> \/ t.columns = {}
    THEN Returns(<<>>, "unknown", <<>>)
    ELSE
    LET cols == t.columns
        platform == _detect_platform(cols, fn)
        mapping == _build_mapping(platform, cols)
        after == ColumnsAfter(cols, mapping)
    IN  IF "timestamp" \notin after THEN Raises("ValueError")
        ELSE
        LET ts_col == SourceOf("timestamp", cols, mapping)
            Parsed(r) == to_datetime(r[ts_col]) # NaT
            kept == SelectSeq(t.rows, Parsed)
            amounts == AmountColumn(kept, cols, mapping, platform)
            \* _ensure_columns: a field without a column is absent
            field(n, name) ==
                IF name \in after
                THEN kept[n][SourceOf(name, cols, mapping)]
                ELSE NA
        IN  Returns(
                [n \in DOMAIN kept |->
                    [timestamp |-> to_datetime(kept[n][ts_col]),
                     amount |-> amounts[n],
                     currency |-> Cell(<<"CNY">>),
                     category |-> field(n, "category"),
                     account |-> Cell(<<platform_labels(platform)>>),
                     counterparty |-> field(n, "counterparty"),
                     transaction_id |-> field(n, "transaction_id"),
                     raw_source |-> Cell(<<platform>>)]],
                platform, Inverse(mapping))

ExtractCall ==
    /\ pc = "ex_call"
    /\ extracted' = Cell(extract_with_auto_schema(raw, filename))
    /\ pc' = "ex_ret"
    /\ UNCHANGED <<entry, error, matcher, checked, result, bucket_vars, config_vars, amount_vars,
                   raw, filename, platform_id, batch_vars>>

\* inputs: the headers a decoded table may carry and the cells under each
ExtractHeaders ==
    {"jiaoyi_shijian", "jine", "shouru_jine", "zhichu_jine", "daifang_jine",
     "jiefang_jine", "shou/zhi"}

Variants == {"first", "second"}

CellOf(h, v) ==
    CASE h = "jiaoyi_shijian" ->
            IF v = "first" THEN Cell(<<"3", "0", "0">>) ELSE Cell(<<"x">>)
      [] h = "jine" ->
            IF v = "first" THEN Cell(<<"-", "5">>) ELSE Cell(<<"x">>)
      [] h \in {"shouru_jine", "daifang_jine"} -> Cell(<<"7">>)
      [] h \in {"zhichu_jine", "jiefang_jine"} -> Cell(<<"3">>)
      [] h = "shou/zhi" ->
            IF v = "first" THEN Cell(<<"shou", "ru">>)
            ELSE Cell(<<"zhi", "chu">>)
      [] h = "jiaoyi_duifang" ->
            IF v = "first" THEN Cell(NameX) ELSE Cell(NameY)

\* the split income and expense columns hold one value
VariantsOf(h) ==
    IF h \in Range(IncomeColumns) \cup Range(ExpenseColumns) THEN {"first"}
    ELSE Variants

RowsOver(H) ==
    {[h \in H |-> CellOf(h, v[h])] :
        v \in {w \in [H -> Variants] : \A h \in H : w[h] \in VariantsOf(h)}}

TablesOver(headers, maxrows) ==
    UNION {{[columns |-> H, rows |-> r] :
                r \in UNION {[1..n -> RowsOver(H)] : n \in 0..maxrows}} :
           H \in SUBSET headers}

FileWx == <<"W", "X", ".", "c", "s", "v">>
FileBank == <<"b", "a", "n", "k", ".", "c", "s", "v">>
FileData == <<"d", "a", "t", "a", ".", "c", "s", "v">>

Filenames == {FileWx, FileBank, FileData}

InitExtract ==
    /\ entry = "extract_with_auto_schema"
    /\ pc = "ex_call"
    /\ error = ""
    /\ MatcherIdle
    /\ AmountIdle
    /\ BatchIdle
    /\ ConfigIdle
    /\ BucketIdle
    /\ filename \in Filenames
    /\ raw \in TablesOver(ExtractHeaders, MaxRows)
    /\ extracted = None
    /\ platform_id = ""

SpecExtract == InitExtract /\ [][ExtractCall]_vars

-----------------------------------------------------------------------------
(* CrossPlatformReconciler.__init__ followed by fuzzy_match.  kwargs maps   *)
(* the names of the keyword arguments given to the constructor to their    *)
(* values; the model runs the matcher with the default thresholds, so the  *)
(* only argument it passes is high_confidence_threshold, in percent.       *)

\* lines 86-88
InitParameters ==
    {"amount_tolerance", "time_window_minutes", "name_similarity_threshold"}

\* lines 84-92: a keyword the signature does not list is a TypeError
Construct ==
    /\ pc = "init_call"
    /\ IF DOMAIN kwargs \subseteq InitParameters
       THEN /\ pc' = "fm_call"
            /\ UNCHANGED error
       ELSE Raise("TypeError")
    /\ UNCHANGED <<entry, matcher, checked, result, others>>

Requested == {60, 80, 95, 100}

InitConfig ==
    /\ entry = "CrossPlatformReconciler"
    /\ pc = "init_call"
    /\ error = ""
    /\ df \in Tables
    /\ i = 0
    /\ j = 0
    /\ matched_indices = {}
    /\ suspected_indices = {}
    /\ matched = <<>>
    /\ suspected = <<>>
    /\ unilateral = <<>>
    /\ checked = <<>>
    /\ result = EmptyResult
    /\ AmountIdle
    /\ ExtractIdle
    /\ file_paths = <<>>
    /\ next_file = 0
    /\ all_dfs = <<>>
    /\ all_mappings = <<>>
    /\ report = None
    /\ BucketIdle
    /\ kwargs \in {<<>>} \cup
            {[high_confidence_threshold |-> h] : h \in Requested}

NextConfig ==
    \/ Construct
    \/ FuzzyMatchStep

SpecConfig == InitConfig /\ [][NextConfig]_vars

-----------------------------------------------------------------------------
(* _detect_platform and _build_mapping called on their own.  More header   *)
(* names in pinyin: chuangjian_shijian, fukuan_shijian line 34,            *)
(* jiaoyi_riqi line 50, jine(yuan) line 43, jiaoyi_jine line 51,           *)
(* jiedai_biaozhi line 52, leixing, jiaoyi_leixing line 37, 45, 53;        *)
(* beizhu is a header no profile lists.                                    *)

DetectCall ==
    /\ pc = "dp_call"
    /\ extracted' = Cell(_detect_platform(raw.columns, filename))
    /\ pc' = "dp_ret"
    /\ UNCHANGED <<entry, error, matcher, checked, result, bucket_vars, config_vars,
                   amount_vars, raw, filename, platform_id, batch_vars>>

DetectHeaders ==
    {"chuangjian_shijian", "jiaoyi_shijian", "jiaoyi_riqi", "jine",
     "jine(yuan)", "jiaoyi_jine", "shou/zhi", "jiedai_biaozhi", "beizhu"}

Suffix == <<".", "c", "s", "v">>

DetectFilenames ==
    {FileData, FileWx, FileBank,
     <<"A", "l", "i", "p", "a", "y">> \o Suffix,
     KwAlipayCn \o Suffix,
     KwWechatCn \o Suffix,
     <<"w", "e", "c", "h", "a", "t">> \o Suffix,
     <<"yin", "hang">> \o Suffix,
     <<"liu", "shui">> \o Suffix,
     <<"b", "a", "n", "k", "_", "w", "x">> \o Suffix,
     <<"w", "x", "_">> \o KwAlipayCn \o Suffix,
     <<"b", "a", "n", "k", "_", "a", "l", "i", "p", "a", "y">> \o Suffix}

InitDetect ==
    /\ entry = "_detect_platform"
    /\ pc = "dp_call"
    /\ error = ""
    /\ MatcherIdle
    /\ AmountIdle
    /\ BatchIdle
    /\ ConfigIdle
    /\ BucketIdle
    /\ filename \in DetectFilenames
    /\ raw \in {[columns |-> H, rows |-> <<>>] : H \in SUBSET DetectHeaders}
    /\ extracted = None
    /\ platform_id = ""

SpecDetect == InitDetect /\ [][DetectCall]_vars

MappingCall ==
    /\ pc = "bm_call"
    /\ extracted' = Cell(_build_mapping(platform_id, raw.columns))
    /\ pc' = "bm_ret"
    /\ UNCHANGED <<entry, error, matcher, checked, result, bucket_vars, config_vars,
                   amount_vars, raw, filename, platform_id, batch_vars>>

MappingHeaders ==
    {"chuangjian_shijian", "fukuan_shijian", "jiaoyi_shijian", "jine(yuan)",
     "jine", "jiaoyi_jine", "shou/zhi", "leixing", "jiaoyi_leixing",
     "jiaoyi_duifang"}

InitMapping ==
    /\ entry = "_build_mapping"
    /\ pc = "bm_call"
    /\ error = ""
    /\ MatcherIdle
    /\ AmountIdle
    /\ BatchIdle
    /\ ConfigIdle
    /\ BucketIdle
    /\ filename = <<>>
    /\ raw \in {[columns |-> H, rows |-> <<>>] : H \in SUBSET MappingHeaders}
    /\ extracted = None
    /\ platform_id \in Range(Platforms) \cup {"unknown"}

SpecMapping == InitMapping /\ [][MappingCall]_vars

-----------------------------------------------------------------------------
(* run_finance_etl, lines 403-477.  A file of the batch is [name, exists,   *)
(* content]: content is the table read_csv decodes it into, or None when   *)
(* no encoding reads it.                                                   *)

MaxFiles == 3

\* lines 162-175 followed by lines 177-224
extract_file(f) ==
    IF f.content = None THEN Raises("ValueError")
    ELSE extract_with_auto_schema(Val(f.content), f.name)

RECURSIVE concat(_)
\* pd.concat(all_dfs, ignore_index=True)
concat(dfs) == IF dfs = <<>> THEN <<>> ELSE Head(dfs) \o concat(Tail(dfs))

RECURSIVE drop_duplicates(_)
\* the last of equal rows is kept
drop_duplicates_KeepLast(t) ==
    LET keep == {n \in DOMAIN t : \A m \in (n + 1)..Len(t) : t[m] # t[n]}
    IN  [k \in 1..Cardinality(keep) |->
            t[CHOOSE n \in keep : Cardinality({m \in keep : m < n}) = k - 1]]

\* DataFrame.drop_duplicates(): the first of equal rows is kept
drop_duplicates(t) ==
    IF t = <<>> THEN <<>>
    ELSE LET front == drop_duplicates(SubSeq(t, 1, Len(t) - 1))
             last == t[Len(t)]
         IN  IF last \in Range(front) THEN front ELSE Append(front, last)

\* pd.concat([...], ignore_index=True) of tagged partitions: labels renumbered
ignore_index(t) == [n \in DOMAIN t |-> [t[n] EXCEPT !.index = n - 1]]

\* inputs: a missing file, an undecodable file, and decoded tables
BatchRow(ts, amt, cp) ==
    [jiaoyi_shijian |-> CellOf("jiaoyi_shijian", ts),
     jine |-> CellOf("jine", amt),
     jiaoyi_duifang |-> CellOf("jiaoyi_duifang", cp)]

BatchHeaders == {"jiaoyi_shijian", "jine", "jiaoyi_duifang"}

Restrict(r, H) == [h \in H |-> r[h]]

BatchTables ==
    \* records with a counterparty
    {[columns |-> BatchHeaders, rows |-> <<BatchRow("first", a, c)>>] :
        a \in Variants, c \in Variants}
    \cup
    \* no row; a row whose timestamp does not parse
    {[columns |-> BatchHeaders, rows |-> <<>>],
     [columns |-> BatchHeaders,
      rows |-> <<BatchRow("second", "first", "first")>>]}
    \cup
    \* a record without counterparty column; a table without timestamp column
    {[columns |-> H,
      rows |-> <<Restrict(BatchRow("first", "first", "first"), H)>>] :
        H \in {{"jiaoyi_shijian", "jine"}, {"jine", "jiaoyi_duifang"}}}

BatchFiles ==
    {[name |-> FileData, exists |-> FALSE, content |-> None],
     [name |-> FileData, exists |-> TRUE, content |-> None]}
    \cup {[name |-> FileData, exists |-> TRUE, content |-> Cell(t)] :
            t \in BatchTables}

\* extract_with_auto_schema on each file of the model, computed once
extraction == [f \in BatchFiles |-> extract_file(f)]

\* line 412
path == file_paths[next_file + 1]

InLoop ==
    /\ entry = "run_finance_etl"
    /\ pc = "rf_loop"
    /\ next_file < Len(file_paths)

Pass_Propagates == Raise("ValueError")

\* lines 418-419: except Exception: pass
Pass == UNCHANGED <<pc, error>>

\* lines 413-414
FileMissing ==
    /\ InLoop
    /\ ~path.exists
    /\ next_file' = next_file + 1
    /\ UNCHANGED <<entry, pc, error, matcher, checked, result, bucket_vars, config_vars, amount_vars,
                   extract_vars, file_paths, all_dfs, all_mappings, report>>

\* lines 415-419: the extraction raises
FileFails ==
    /\ InLoop
    /\ path.exists
    /\ extraction[path].raised
    /\ Pass
    /\ next_file' = next_file + 1
    /\ UNCHANGED <<entry, matcher, checked, result, bucket_vars, config_vars, amount_vars,
                   extract_vars, file_paths, all_dfs, all_mappings, report>>

\* lines 416-417: the extraction returns an empty table
FileEmpty ==
    /\ InLoop
    /\ path.exists
    /\ ~extraction[path].raised
    /\ extraction[path].table = <<>>
    /\ next_file' = next_file + 1
    /\ UNCHANGED <<entry, pc, error, matcher, checked, result, bucket_vars, config_vars, amount_vars,
                   extract_vars, file_paths, all_dfs, all_mappings, report>>

\* lines 416-419: the extraction returns records
FileLoaded ==
    /\ InLoop
    /\ path.exists
    /\ ~extraction[path].raised
    /\ extraction[path].table # <<>>
    /\ all_dfs' = Append(all_dfs, extraction[path].table)
    /\ all_mappings' = Append(all_mappings,
            [file |-> path.name,
             platform |-> extraction[path].platform,
             mapping |-> extraction[path].mapping])
    /\ next_file' = next_file + 1
    /\ UNCHANGED <<entry, pc, error, matcher, checked, result, bucket_vars, config_vars, amount_vars,
                   extract_vars, file_paths, report>>

\* pd.concat of an empty list
NoData_Concatenates ==
    /\ entry = "run_finance_etl"
    /\ pc = "rf_loop"
    /\ next_file = Len(file_paths)
    /\ all_dfs = <<>>
    /\ Raise("ValueError")
    /\ UNCHANGED <<entry, matcher, checked, result, others>>

\* lines 421-432
NoData ==
    /\ entry = "run_finance_etl"
    /\ pc = "rf_loop"
    /\ next_file = Len(file_paths)
    /\ all_dfs = <<>>
    /\ report' = Cell([error |-> "no_data"])
    /\ pc' = "rf_ret"
    /\ UNCHANGED <<entry, error, matcher, checked, result, bucket_vars, config_vars, amount_vars,
                   extract_vars, file_paths, next_file, all_dfs, all_mappings>>

\* lines 434-435: the merged table goes to fuzzy_match
Merge ==
    /\ entry = "run_finance_etl"
    /\ pc = "rf_loop"
    /\ next_file = Len(file_paths)
    /\ all_dfs # <<>>
    /\ df' = drop_duplicates(concat(all_dfs))
    /\ pc' = "fm_call"
    /\ UNCHANGED <<entry, error, i, j, matched_indices, suspected_indices,
                   matched, suspected, unilateral, checked, result, others>>

\* lines 436-438: the partitions, concatenated, go to consistency_check
BatchCheck ==
    /\ entry = "run_finance_etl"
    /\ pc = "fm_ret"
    /\ checked' = ignore_index(matched \o suspected \o unilateral)
    /\ pc' = "cc_call"
    /\ UNCHANGED <<entry, error, matcher, result, others>>

\* lines 442-477; the workbook of line 440 is not modelled
BatchReturn ==
    /\ entry = "run_finance_etl"
    /\ pc = "cc_ret"
    /\ report' = Cell(
            [total |-> Len(df),
             matched |-> Len(matched),
             suspected_duplicate |-> Len(suspected),
             unilateral |-> Len(unilateral),
             consistency |-> result,
             column_mappings |-> all_mappings,
             raw_df |-> df])
    /\ pc' = "rf_ret"
    /\ UNCHANGED <<entry, error, matcher, checked, result, bucket_vars, config_vars, amount_vars,
                   extract_vars, file_paths, next_file, all_dfs, all_mappings>>

InitBatch ==
    /\ entry = "run_finance_etl"
    /\ pc = "rf_loop"
    /\ error = ""
    /\ MatcherIdle
    /\ AmountIdle
    /\ ExtractIdle
    /\ ConfigIdle
    /\ BucketIdle
    /\ file_paths \in UNION {[1..n -> BatchFiles] : n \in 0..MaxFiles}
    /\ next_file = 0
    /\ all_dfs = <<>>
    /\ all_mappings = <<>>
    /\ report = None

NextBatch ==
    \/ FileMissing
    \/ FileFails
    \/ FileEmpty
    \/ FileLoaded
    \/ NoData
    \/ Merge
    \/ FuzzyMatchStep
    \/ BatchCheck
    \/ ConsistencyEnter
    \/ BatchReturn

SpecBatch == InitBatch /\ [][NextBatch]_vars

-----------------------------------------------------------------------------
(* Properties of fuzzy_match *)

\* the rows of the three returned partitions, in the order they are returned
Returned == matched \o suspected \o unilateral

\* index labels of the rows of a returned partition
Labels(t) == {t[n].index : n \in DOMAIN t}

\* the rows the step assigns to a pair
NewlyAssigned ==
    (matched_indices' \cup suspected_indices')
        \ (matched_indices \cup suspected_indices)

WithinAmount(a, b) ==
    Abs(Val(row(a).amount) - Val(row(b).amount)) <= amount_tolerance

WithinTime(a, b) ==
    Abs(Val(row(a).timestamp) - Val(row(b).timestamp))
        <= time_window_minutes * 60

NamesKnown(a, b) ==
    ~IsNA(row(a).counterparty) /\ ~IsNA(row(b).counterparty)

SimilarEnough(a, b) ==
    100 * sim(row(a), row(b)).num
        >= name_similarity_threshold * sim(row(a), row(b)).den

Eligible(a, b) ==
    /\ NamesKnown(a, b)
    /\ WithinAmount(a, b)
    /\ WithinTime(a, b)
    /\ SimilarEnough(a, b)

\* C1: when fuzzy_match returns, every input row is in exactly one of
\* matched, suspected_duplicate, unilateral, exactly once and unchanged, and
\* the partitions hold nothing else.
C1_PartitionsCoverInput ==
    pc = "fm_ret" =>
        /\ Len(Returned) = Len(df)
        /\ Labels(matched) \cap Labels(suspected) = {}
        /\ Labels(matched) \cap Labels(unilateral) = {}
        /\ Labels(suspected) \cap Labels(unilateral) = {}
        /\ \A n \in 0..(Len(df) - 1) :
              Cardinality({m \in DOMAIN Returned : Returned[m].index = n}) = 1
        /\ \A m \in DOMAIN Returned :
              /\ Returned[m].index \in 0..(Len(df) - 1)
              /\ \A f \in Range(STANDARD_SCHEMA) :
                    Returned[m][f] = row(Returned[m].index)[f]
        /\ \A m \in DOMAIN matched : matched[m].match_status = "matched"
        /\ \A m \in DOMAIN suspected :
              suspected[m].match_status = "suspected_duplicate"
        /\ \A m \in DOMAIN unilateral :
              unilateral[m].match_status = "unilateral"

\* a returned three-row table with a pair and a unilateral row
C1_Witness ==
    /\ pc = "fm_ret"
    /\ Len(df) = 3
    /\ Len(suspected) = 2
    /\ Len(unilateral) = 1

\* C2: a row i visited while unassigned is paired with the lowest-index
\* unassigned later row eligible with it, whatever the later rows score, and
\* stays unpaired only when no such row exists; with three rows where row 0
\* is eligible with rows 1 and 2, rows 0 and 1 are paired and row 2 is
\* returned unilateral.
C2_LowestEligibleWins ==
    [][ /\ (pc = "fm_inner" /\ NewlyAssigned # {}) =>
            /\ NewlyAssigned = {i, j}
            /\ i < j
            /\ Eligible(i, j)
            /\ \A k \in (i + 1)..(j - 1) : ~Assigned(k) => ~Eligible(i, k)
        /\ (pc = "fm_inner" /\ pc' = "fm_outer" /\ NewlyAssigned = {}) =>
            \A k \in (i + 1)..(Len(df) - 1) : ~Assigned(k) => ~Eligible(i, k)
        /\ (pc = "fm_tag" /\ pc' = "fm_ret" /\ Len(df) = 3
                /\ Eligible(0, 1) /\ Eligible(0, 2)) =>
            /\ Labels(unilateral') = {2}
            /\ \/ Labels(matched') = {0, 1}
               \/ Labels(suspected') = {0, 1}
      ]_vars

\* row 0 is eligible with rows 1 and 2 and scores higher with row 2, yet is
\* returned paired with row 1
C2_Witness ==
    /\ pc = "fm_ret"
    /\ Len(df) = 3
    /\ Eligible(0, 1)
    /\ Eligible(0, 2)
    /\ sim(row(0), row(1)).num * sim(row(0), row(2)).den
          < sim(row(0), row(2)).num * sim(row(0), row(1)).den
    /\ Labels(suspected) = {0, 1}
    /\ Labels(unilateral) = {2}

\* C3: every pair fuzzy_match forms has amounts within amount_tolerance,
\* timestamps within the time window and similarity at least
\* name_similarity_threshold, all bounds inclusive; two rows whose amounts
\* differ by more than the tolerance are both returned unilateral.
C3_PairsAreEligible ==
    [][ /\ NewlyAssigned # {} =>
            \E a \in NewlyAssigned : \E b \in NewlyAssigned :
                /\ a < b
                /\ NewlyAssigned = {a, b}
                /\ WithinAmount(a, b)
                /\ WithinTime(a, b)
                /\ NamesKnown(a, b)
                /\ SimilarEnough(a, b)
        /\ (pc # "fm_ret" /\ pc' = "fm_ret" /\ Len(df) = 2
                /\ ~WithinAmount(0, 1)) =>
            Labels(unilateral') = {0, 1}
      ]_vars

\* a pair formed with all three conditions exactly at their bounds
C3_Witness ==
    /\ pc = "fm_ret"
    /\ Len(df) = 2
    /\ Labels(suspected) = {0, 1}
    /\ Abs(Val(row(0).amount) - Val(row(1).amount)) = amount_tolerance
    /\ Abs(Val(row(0).timestamp) - Val(row(1).timestamp))
          = time_window_minutes * 60
    /\ 100 * sim(row(0), row(1)).num
          = name_similarity_threshold * sim(row(0), row(1)).den

\* the status the returned partitions give to the row with index label n
StatusOf(parts, n) ==
    LET m == CHOOSE m \in DOMAIN parts : parts[m].index = n
    IN  parts[m].match_status

\* C4: the two rows of a formed pair get the same status, matched when the
\* pair's similarity is at least the high-confidence threshold (the boundary
\* included) and suspected_duplicate otherwise, and are returned with it.
C4_PairStatusBySimilarity ==
    [][ /\ NewlyAssigned # {} =>
            IF 100 * sim(row(i), row(j)).num
                  >= high_confidence * sim(row(i), row(j)).den
            THEN /\ NewlyAssigned \subseteq matched_indices'
                 /\ NewlyAssigned \cap suspected_indices' = {}
            ELSE /\ NewlyAssigned \subseteq suspected_indices'
                 /\ NewlyAssigned \cap matched_indices' = {}
        /\ (pc = "fm_tag" /\ pc' = "fm_ret") =>
            /\ \A n \in matched_indices :
                  StatusOf(matched' \o suspected' \o unilateral', n) = "matched"
            /\ \A n \in suspected_indices :
                  StatusOf(matched' \o suspected' \o unilateral', n)
                      = "suspected_duplicate"
      ]_vars

\* a pair whose similarity is exactly the high-confidence threshold is
\* returned matched
C4_Witness ==
    /\ pc = "fm_ret"
    /\ Len(df) = 2
    /\ 100 * sim(row(0), row(1)).num
          = high_confidence * sim(row(0), row(1)).den
    /\ Len(matched) = 2
    /\ matched[1].match_status = "matched"
    /\ matched[2].match_status = "matched"

\* C9: fuzzy_match and consistency_check end without raising on every table
\* whose rows carry the eight fields, absent optional fields included.
C9_NeverRaises == pc # "raised" /\ error = ""

-----------------------------------------------------------------------------
(* Properties of _parse_amount *)

HasDirection == direction_series # None

DirectionAt(n) == Val(direction_series)[n]

\* C5: with an inflow keyword in the direction cell the amount returned is
\* never negative, whatever the sign of the raw value.
C5_InflowNonNegative ==
    (pc = "pa_ret" /\ HasDirection) =>
        \A n \in DOMAIN series :
            IsInflow(DirectionAt(n)) => Val(vals[n]) >= 0

\* C6: without an inflow keyword in the direction cell the amount returned
\* is the parsed raw value made non-positive: never above zero and of the
\* same magnitude.
C6_OutflowNonPositive ==
    (pc = "pa_ret" /\ HasDirection) =>
        \A n \in DOMAIN series :
            ~IsInflow(DirectionAt(n)) =>
                /\ Val(vals[n]) <= 0
                /\ Abs(Val(vals[n])) = Abs(CleanAmount(series[n]))

\* a negative raw value under an outflow direction comes out negative
C6_Witness ==
    /\ pc = "pa_ret"
    /\ HasDirection
    /\ Len(series) = 1
    /\ series[1] = Cell(<<"-", "5">>)
    /\ DirectionAt(1) = Cell(<<"zhi", "chu">>)
    /\ vals[1] = Cell(-500)

-----------------------------------------------------------------------------
(* Properties of extract_with_auto_schema *)

Returned_table == Val(extracted).table

ExtractReturned == pc = "ex_ret" /\ ~Val(extracted).raised

\* C7: every record of a table extract_with_auto_schema returns has a
\* numeric amount, never the absent marker.
C7_AmountNumeric ==
    ExtractReturned =>
        \A n \in DOMAIN Returned_table : ~IsNA(Returned_table[n].amount)

\* a raw cell that reads as a point in time
TimestampParses(c) ==
    /\ c # NaN
    /\ Val(c) # <<>>
    /\ \A n \in DOMAIN Val(c) : Val(c)[n] \in Range(Digits)

\* the rows of the raw table whose timestamp parses, in order
KeptRaw ==
    LET ts == FirstIn(Schema(Val(extracted).platform).timestamp, raw.columns)
        Parsed(r) == TimestampParses(r[ts])
    IN  SelectSeq(raw.rows, Parsed)

SingleAmountHeaders == {"jine", "jiaoyi_jine", "jine(yuan)"}

DirectionHeaders ==
    {"shou/zhi", "shouru/zhichu", "shoufu_biaozhi", "jiedai_biaozhi"}

\* C8 (for tables read under the bank profile): without a direction column
\* and without a single amount column, the amount of each row is income
\* minus expense when both columns exist, the income when only the income
\* column exists, and the negated expense when only the expense column
\* exists.
C8_SplitColumnsCombined ==
    (/\ ExtractReturned
     /\ Val(extracted).platform = "bank"
     /\ raw.columns \cap DirectionHeaders = {}
     /\ raw.columns \cap SingleAmountHeaders = {}) =>
        LET inc == FirstIn(IncomeColumns, raw.columns)
            exp == FirstIn(ExpenseColumns, raw.columns)
        IN  \A n \in DOMAIN Returned_table :
                /\ (inc # "" /\ exp # "") =>
                      Returned_table[n].amount
                          = Cell(SplitAmount(KeptRaw[n][inc])
                                 - SplitAmount(KeptRaw[n][exp]))
                /\ (inc # "" /\ exp = "") =>
                      Returned_table[n].amount
                          = Cell(SplitAmount(KeptRaw[n][inc]))
                /\ (inc = "" /\ exp # "") =>
                      Returned_table[n].amount
                          = Cell(-SplitAmount(KeptRaw[n][exp]))

-----------------------------------------------------------------------------
(* Properties of run_finance_etl *)

\* the records a file of the batch contributes: those its extraction returns
RecordsOf(f) ==
    IF f.exists /\ ~extraction[f].raised THEN Range(extraction[f].table)
    ELSE {}

Failing(f) == f.exists /\ extraction[f].raised

\* the files the loop has gone through
Visited == {file_paths[n] : n \in 1..next_file}

\* C10: in run_finance_etl a file whose extraction fails, wherever it stands
\* in the list, does not end the batch and takes no record away: the loop
\* goes through every file, the tables collected so far hold the records of
\* every visited file that extracted, and the table given to fuzzy_match
\* contains the records of every file that extracted.
C10_FailuresAreIsolated ==
    entry = "run_finance_etl" =>
        /\ pc = "rf_loop" =>
            /\ error = ""
            /\ \A f \in Visited : RecordsOf(f) \subseteq Range(concat(all_dfs))
        /\ pc # "rf_loop" =>
            /\ next_file = Len(file_paths)
            /\ \A f \in Range(file_paths) : RecordsOf(f) \subseteq Range(df)

\* a failing file stands between two files that extract different records,
\* and the matcher is given both
C10_Witness ==
    /\ entry = "run_finance_etl"
    /\ pc = "fm_call"
    /\ Len(file_paths) = 3
    /\ Failing(file_paths[2])
    /\ RecordsOf(file_paths[1]) # {}
    /\ RecordsOf(file_paths[3]) # {}
    /\ RecordsOf(file_paths[1]) # RecordsOf(file_paths[3])
    /\ Len(df) = 2

\* the batch returned a combined result, not the no-data result
CombinedResult ==
    /\ entry = "run_finance_etl"
    /\ pc = "rf_ret"
    /\ "consistency" \in DOMAIN Val(report)

\* the warnings the combined result carries
ReportWarnings == Range(Val(report).consistency.warnings)

\* C11: when some files of a batch fail extraction and at least one
\* extracts, the returned result carries, next to the reconciliation result,
\* one skipped-file warning for each failed file, naming the file.
C11_SkippedFilesReported ==
    CombinedResult =>
        \A n \in DOMAIN file_paths :
            Failing(file_paths[n]) =>
                \E w \in ReportWarnings :
                    w[1] = "skipped" /\ w[2] = file_paths[n].name

-----------------------------------------------------------------------------
(* Error handling of extract_with_auto_schema *)

\* the raw headers that resolve to timestamp under the detected profile
TimestampHeaders ==
    {c \in raw.columns :
        \/ c = "timestamp"
        \/ c \in Range(Schema(_detect_platform(raw.columns, filename)).timestamp)}

\* C12 as stated: for every raw table and filename, when no raw header
\* resolves to timestamp under the detected profile, extract_with_auto_schema
\* raises instead of returning a table.
C12_NoTimestampFails ==
    (pc = "ex_ret" /\ TimestampHeaders = {}) => Val(extracted).raised

\* C12 amended: for every raw table with at least one row and one column,
\* when no raw header resolves to timestamp under the detected profile,
\* extract_with_auto_schema raises ValueError instead of returning a table.
C12_NoTimestampFails_NonEmpty ==
    (/\ pc = "ex_ret"
     /\ raw.rows # <<>>
     /\ raw.columns # {}
     /\ TimestampHeaders = {}) =>
        /\ Val(extracted).raised
        /\ Val(extracted).error = "ValueError"

\* a table with an amount in every row and no timestamp header was refused
C12_Witness ==
    /\ pc = "ex_ret"
    /\ Len(raw.rows) = 2
    /\ raw.columns = {"jine"}
    /\ Val(extracted).raised

-----------------------------------------------------------------------------
(* Batches without data *)

\* no file of the batch yields a record
NothingExtracted == \A f \in Range(file_paths) : RecordsOf(f) = {}

NoDataReport == Cell([error |-> "no_data"])

\* C13: a batch none of whose files yields a record (each is missing, fails
\* or is empty) raises nothing, never calls fuzzy_match or consistency_check,
\* and returns the no-data result once the files are gone through.
C13_NoDataResult ==
    [][ (entry = "run_finance_etl" /\ NothingExtracted) =>
            /\ error' = ""
            /\ pc' \in {"rf_loop", "rf_ret"}
            /\ UNCHANGED <<matcher, checked, result>>
            /\ (pc = "rf_loop" /\ next_file = Len(file_paths)) =>
                    pc' = "rf_ret"
            /\ pc' = "rf_ret" => report' = NoDataReport
      ]_vars

\* a missing file, a failing file and an empty file gave the no-data result
C13_Witness ==
    /\ entry = "run_finance_etl"
    /\ pc = "rf_ret"
    /\ report = NoDataReport
    /\ Len(file_paths) = 3
    /\ ~file_paths[1].exists
    /\ Failing(file_paths[2])
    /\ file_paths[3].exists
    /\ ~Failing(file_paths[3])

-----------------------------------------------------------------------------
(* Properties of _detect_platform *)

\* the file name, whatever its case, carries the brand token kw
Mentions(kw) ==
    \E n \in 0..(Len(filename) - Len(kw)) :
        \A m \in 1..Len(kw) :
            \/ filename[n + m] = kw[m]
            \/ \E l \in DOMAIN LowerCase :
                  kw[m] = LowerCase[l] /\ filename[n + m] = UpperCase[l]

\* the profiles a brand token of the file name points at
KeywordProfiles ==
    {p \in Range(Platforms) :
        CASE p = "alipay" -> Mentions(KwAlipayCn) \/ Mentions(KwAlipay)
          [] p = "wechat" ->
                Mentions(KwWechatCn) \/ Mentions(KwWechat) \/ Mentions(KwWx)
          [] p = "bank" -> \E kw \in KwBank : Mentions(kw)}

\* the headers hold a timestamp alias and an amount or direction alias of
\* the n-th registered profile
Fits(n) ==
    LET schema == PLATFORM_SCHEMAS[Platforms[n]]
    IN  /\ Range(schema.timestamp) \cap raw.columns # {}
        /\ (Range(schema.amount) \cup Range(schema.direction))
                \cap raw.columns # {}

Detected == Val(extracted)

\* C14: _detect_platform always answers with a registered profile id; a
\* brand token in the file name decides whatever the headers are; without
\* one the first registered profile (alipay, wechat, bank) with a timestamp
\* alias and an amount or direction alias among the headers is the answer,
\* and bank when there is none.
C14_DetectionPrecedence ==
    pc = "dp_ret" =>
        /\ Detected \in Range(Platforms)
        /\ KeywordProfiles # {} => Detected \in KeywordProfiles
        /\ KeywordProfiles = {} =>
              /\ \A n \in DOMAIN Platforms :
                    (Fits(n) /\ \A m \in 1..(n - 1) : ~Fits(m)) =>
                        Detected = Platforms[n]
              /\ (\A n \in DOMAIN Platforms : ~Fits(n)) => Detected = "bank"

\* a file named after wechat whose headers fit alipay is read as wechat
C14_Witness ==
    /\ pc = "dp_ret"
    /\ filename = FileWx
    /\ Fits(1)
    /\ Detected = "wechat"

-----------------------------------------------------------------------------
(* Properties of _build_mapping *)

Mapping == Val(extracted)

\* the raw headers the mapping sends to the canonical field
MappedTo(field) == {c \in DOMAIN Mapping : Mapping[c] = field}

\* positions of the aliases of a field that are among the raw headers
PresentAliases(aliases) == {n \in DOMAIN aliases : aliases[n] \in raw.columns}

\* C15: for every registered profile and raw header set, each canonical
\* field other than direction is mapped from the first alias, in the
\* profile's declared order, that is among the raw headers, and from no
\* other header; a field with no alias among the headers is not in the
\* mapping; no direction alias is in the mapping.
C15_FirstAliasMapped ==
    (pc = "bm_ret" /\ platform_id \in Range(Platforms)) =>
        LET schema == PLATFORM_SCHEMAS[platform_id]
        IN  /\ \A field \in Range(SchemaFields) \ {"direction"} :
                  LET present == PresentAliases(schema[field])
                  IN  IF present = {}
                      THEN MappedTo(field) = {}
                      ELSE \E n \in present :
                              /\ \A m \in present : n <= m
                              /\ MappedTo(field) = {schema[field][n]}
            /\ MappedTo("direction") = {}
            /\ DOMAIN Mapping \cap Range(schema.direction) = {}
            /\ DOMAIN Mapping \subseteq raw.columns

\* both amount aliases of wechat and its direction alias are among the
\* headers: the earlier alias is mapped, the later one and the direction
\* alias are not
C15_Witness ==
    /\ pc = "bm_ret"
    /\ platform_id = "wechat"
    /\ {"jine(yuan)", "jine", "shou/zhi"} \subseteq raw.columns
    /\ MappedTo("amount") = {"jine(yuan)"}
    /\ "jine" \notin DOMAIN Mapping
    /\ "shou/zhi" \notin DOMAIN Mapping

-----------------------------------------------------------------------------
(* Shape of the tables extract_with_auto_schema returns *)

\* the raw timestamp header of the returned table
TimestampHeader ==
    FirstIn(Schema(Val(extracted).platform).timestamp, raw.columns)

\* no raw header is an alias of the field, or the field itself
Unsourced(field) ==
    /\ field \notin raw.columns
    /\ Range(Schema(Val(extracted).platform)[field]) \cap raw.columns = {}

\* C16: every record of a table extract_with_auto_schema returns has exactly
\* the eight canonical fields, a field without source holding the absent
\* marker, and a parsed timestamp; the records are the raw rows whose
\* timestamp parses, in their original order.
C16_CanonicalRecords ==
    ExtractReturned =>
        /\ \A n \in DOMAIN Returned_table :
              /\ DOMAIN Returned_table[n] = Range(STANDARD_SCHEMA)
              /\ ~IsNA(Returned_table[n].timestamp)
              /\ ~IsNA(Returned_table[n].account)
              /\ ~IsNA(Returned_table[n].raw_source)
              /\ ~IsNA(Returned_table[n].currency)
              /\ \A field \in {"category", "counterparty", "transaction_id"} :
                    Unsourced(field) => IsNA(Returned_table[n][field])
        /\ (raw.rows = <<>> \/ raw.columns = {}) => Returned_table = <<>>
        /\ (raw.rows # <<>> /\ raw.columns # {}) =>
              /\ Len(Returned_table) = Len(KeptRaw)
              /\ \A n \in DOMAIN Returned_table :
                    /\ Returned_table[n].timestamp
                          = Cell(DecimalValue(Val(KeptRaw[n][TimestampHeader])))
                    /\ "jine" \in raw.columns =>
                          /\ ~IsNA(Returned_table[n].amount)
                          /\ Abs(Val(Returned_table[n].amount))
                                = Abs(CleanAmount(KeptRaw[n].jine))

\* of two raw rows the first has an unreadable timestamp: the second is the
\* only record, with its absent fields filled in
C16_Witness ==
    /\ ExtractReturned
    /\ Len(raw.rows) = 2
    /\ "jine" \in raw.columns
    /\ ~TimestampParses(raw.rows[1][TimestampHeader])
    /\ raw.rows[1].jine # raw.rows[2].jine
    /\ Len(Returned_table) = 1
    /\ Abs(Val(Returned_table[1].amount)) = Abs(CleanAmount(raw.rows[2].jine))
    /\ IsNA(Returned_table[1].counterparty)

-----------------------------------------------------------------------------
(* Configuration of the matcher *)

\* the high-confidence boundary the reconciler was asked to use, in percent
ConfiguredBoundary ==
    IF "high_confidence_threshold" \in DOMAIN kwargs
    THEN kwargs.high_confidence_threshold
    ELSE high_confidence

\* C17: the high-confidence boundary is a named parameter of the reconciler
\* next to the three others: a reconciler is built for any value h of it,
\* and every pair it forms is matched when the pair's similarity is at
\* least h and suspected_duplicate otherwise.
C17_ConfiguredBoundary ==
    [][ /\ pc = "init_call" => pc' = "fm_call"
        /\ NewlyAssigned # {} =>
              IF AtLeast(sim(row(i), row(j)), ConfiguredBoundary)
              THEN NewlyAssigned \subseteq matched_indices'
              ELSE NewlyAssigned \subseteq suspected_indices'
      ]_vars

-----------------------------------------------------------------------------
(* Properties of consistency_check *)

CheckReturned == entry = "consistency_check" /\ pc = "cc_ret"

RECURSIVE NetOver(_)
\* the signed sum of the amounts of the checked rows at the positions S
NetOver(S) ==
    IF S = {} THEN 0
    ELSE LET n == CHOOSE m \in S : TRUE
         IN  Val(checked[n].amount) + NetOver(S \ {n})

NetAmount == NetOver(DOMAIN checked)

ImbalanceWarnings == {w \in Range(result.warnings) : w[1] = "unbalanced"}

\* C18: the result of consistency_check has amount_balanced = FALSE and a
\* warning naming the net amount exactly when the absolute value of the
\* signed sum of the amounts is strictly above 100 (10000 cents); otherwise
\* amount_balanced = TRUE and there is no imbalance warning.  A net of 150
\* is flagged, a net of exactly 100 is not.
C18_ImbalanceFlagged ==
    CheckReturned =>
        /\ result.total_amount = NetAmount
        /\ IF Abs(NetAmount) > 100 * 100
           THEN /\ result.amount_balanced = FALSE
                /\ ImbalanceWarnings = {<<"unbalanced", NetAmount>>}
           ELSE /\ result.amount_balanced = TRUE
                /\ ImbalanceWarnings = {}
        /\ NetAmount = 150 * 100 => ~result.amount_balanced
        /\ NetAmount = 100 * 100 => result.amount_balanced

\* three records of 50 each: the net of 150 is flagged
C18_Witness ==
    /\ CheckReturned
    /\ Len(checked) = 3
    /\ NetAmount = 150 * 100
    /\ result.amount_balanced = FALSE
    /\ ImbalanceWarnings # {}

\* C19: on the empty table consistency_check returns every field of the
\* result: the three counts zero, the net amount zero, no warning, and
\* amount_balanced = TRUE.
C19_EmptyTableResult ==
    (CheckReturned /\ checked = <<>>) =>
        /\ DOMAIN result =
              {"amount_balanced", "total_amount", "unilateral_count",
               "suspected_duplicate_count", "matched_count", "warnings"}
        /\ result.matched_count = 0
        /\ result.suspected_duplicate_count = 0
        /\ result.unilateral_count = 0
        /\ result.total_amount = 0
        /\ result.warnings = <<>>
        /\ result.amount_balanced = TRUE

\* consistency_check has returned for the empty table
C19_Witness ==
    /\ CheckReturned
    /\ checked = <<>>
    /\ df = <<>>
    /\ result.warnings = <<>>

\* the number of unilateral records of the checked table: by its
\* match_status column, or by what fuzzy_match returned for it
UnilateralRecords ==
    IF checked # <<>> /\ "match_status" \in DOMAIN checked[1]
    THEN Cardinality({n \in DOMAIN checked :
                        checked[n].match_status = "unilateral"})
    ELSE Len(unilateral)

CompletenessWarnings ==
    {w \in Range(result.warnings) : w[1] = "unilateral_ratio"}

\* C20: consistency_check adds the data-completeness warning exactly when
\* the number of unilateral records is strictly greater than half the number
\* of records; at half or below it adds none.
C20_CompletenessWarning ==
    CheckReturned =>
        /\ result.unilateral_count = UnilateralRecords
        /\ CompletenessWarnings # {} <=> 2 * UnilateralRecords > Len(checked)

\* one of two records is unilateral, exactly half: no warning
C20_Witness ==
    /\ CheckReturned
    /\ Len(checked) = 2
    /\ UnilateralRecords = 1
    /\ CompletenessWarnings = {}

-----------------------------------------------------------------------------
(* Further properties of fuzzy_match *)

\* the scan of fuzzy_match is about to compare rows i and j
Comparing ==
    /\ pc = "fm_inner"
    /\ j < Len(df)
    /\ ~Assigned(j)

\* C22: an absent counterparty counts as the empty string.  Reading a row
\* whose counterparty is absent does not end the run; two rows with absent
\* counterparty, amounts within tolerance and timestamps within the window
\* are paired as matched (similarity 1.0); a row with absent counterparty is
\* not paired with a row that has a non-empty one (similarity 0.0), and the
\* scan goes on.
C22_AbsentCounterpartyIsEmpty ==
    [][ /\ (pc = "fm_outer" /\ i < Len(df) /\ ~Assigned(i)
                /\ IsNA(row(i).counterparty)) => pc' = "fm_inner"
        /\ (Comparing /\ IsNA(row(i).counterparty)
                /\ IsNA(row(j).counterparty)
                /\ WithinAmount(i, j) /\ WithinTime(i, j)) =>
              {i, j} \subseteq matched_indices'
        /\ (Comparing
                /\ IsNA(row(i).counterparty) # IsNA(row(j).counterparty)) =>
              /\ NewlyAssigned = {}
              /\ pc' = "fm_inner"
              /\ j' = j + 1
      ]_vars

\* C23: when fuzzy_match returns, no two unilateral rows are eligible with
\* each other (amounts within tolerance, timestamps within the window, name
\* similarity at least the threshold); a unilateral row may be eligible with
\* a row that was paired with another.
C23_NoEligibleUnilateralPair ==
    pc = "fm_ret" =>
        \A a \in Labels(unilateral) : \A b \in Labels(unilateral) :
            a < b => ~Eligible(a, b)

\* rows 0 and 1 are paired; row 2 is eligible with both and is unilateral
C23_Witness ==
    /\ pc = "fm_ret"
    /\ Len(df) = 3
    /\ Labels(unilateral) = {2}
    /\ Eligible(0, 2)
    /\ Eligible(1, 2)
    /\ Labels(matched) \cup Labels(suspected) = {0, 1}

\* C24: at every step of fuzzy_match the matched set and the
\* suspected_duplicate set are made of whole pairs: a step that assigns
\* anything assigns two rows that were both unassigned, both to the same
\* set; no row ever leaves its set or is in both; both sets have even size,
\* and so have the returned partitions.
C24_WholePairs ==
    [][ /\ matched_indices \subseteq matched_indices'
        /\ suspected_indices \subseteq suspected_indices'
        /\ matched_indices' \cap suspected_indices' = {}
        /\ NewlyAssigned # {} =>
              /\ NewlyAssigned = {i, j}
              /\ i # j
              /\ \/ matched_indices' = matched_indices \cup {i, j}
                    /\ suspected_indices' = suspected_indices
                 \/ suspected_indices' = suspected_indices \cup {i, j}
                    /\ matched_indices' = matched_indices
        /\ Cardinality(matched_indices') % 2 = 0
        /\ Cardinality(suspected_indices') % 2 = 0
        /\ pc' = "fm_ret" =>
              /\ Labels(matched') = matched_indices'
              /\ Labels(suspected') = suspected_indices'
              /\ Len(matched') % 2 = 0
              /\ Len(suspected') % 2 = 0
      ]_vars

\* rows 0 and 2 are a pair; row 1, eligible with row 2, found it taken and
\* is unilateral
C24_Witness ==
    /\ pc = "fm_ret"
    /\ Len(df) = 3
    /\ Labels(matched) \cup Labels(suspected) = {0, 2}
    /\ Labels(unilateral) = {1}
    /\ ~Eligible(0, 1)
    /\ Eligible(1, 2)

-----------------------------------------------------------------------------
(* The counts of consistency_check *)

\* the rows of the checked table that carry the given status
Carrying(status) ==
    {n \in DOMAIN checked : checked[n].match_status = status}

\* the checked table is a concatenation of partitions
Partitioned == checked # <<>> /\ "match_status" \in DOMAIN checked[1]

\* C25: in the result of consistency_check the three counts add up to the
\* number of rows of the table; for a concatenation of partitions each count
\* is the number of rows of that partition, for a table without match_status
\* each count is the size of the partition fuzzy_match returned; and
\* total_amount is the signed sum of all amounts.
C25_CountsCoverTheTable ==
    CheckReturned =>
        /\ result.matched_count + result.suspected_duplicate_count
              + result.unilateral_count = Len(checked)
        /\ result.total_amount = NetAmount
        /\ Partitioned =>
              /\ result.matched_count = Cardinality(Carrying("matched"))
              /\ result.suspected_duplicate_count =
                    Cardinality(Carrying("suspected_duplicate"))
              /\ result.unilateral_count = Cardinality(Carrying("unilateral"))
        /\ (checked # <<>> /\ ~Partitioned) =>
              /\ result.matched_count = Len(matched)
              /\ result.suspected_duplicate_count = Len(suspected)
              /\ result.unilateral_count = Len(unilateral)
              /\ Labels(matched) \cup Labels(suspected) \cup Labels(unilateral)
                    = 0..(Len(checked) - 1)

\* a table without match_status: fuzzy_match paired two rows and left one
C25_Witness ==
    /\ CheckReturned
    /\ ~Partitioned
    /\ Len(checked) = 3
    /\ result.matched_count + result.suspected_duplicate_count = 2
    /\ result.unilateral_count = 1
    /\ result.total_amount # 0

-----------------------------------------------------------------------------
(* The table run_finance_etl gives to fuzzy_match *)

RECURSIVE ExtractedUpTo(_)
\* the rows extracted from the first n files of the list, in list order
ExtractedUpTo(n) ==
    IF n = 0 THEN <<>>
    ELSE ExtractedUpTo(n - 1) \o
         (IF file_paths[n].exists /\ ~extraction[file_paths[n]].raised
          THEN extraction[file_paths[n]].table ELSE <<>>)

Extracted == ExtractedUpTo(Len(file_paths))

\* the positions of Extracted that hold the first occurrence of their row
FirstOccurrences ==
    {n \in DOMAIN Extracted : \A m \in 1..(n - 1) : Extracted[m] # Extracted[n]}

\* the k-th first occurrence, counted from the top
Survivor(k) ==
    CHOOSE n \in FirstOccurrences :
        Cardinality({m \in FirstOccurrences : m < n}) = k - 1

\* the batch has merged its tables and fuzzy_match has them
Merged ==
    /\ entry = "run_finance_etl"
    /\ pc \in {"fm_call", "fm_outer", "fm_inner", "fm_tag", "fm_ret"}

\* C26: the table run_finance_etl gives to fuzzy_match is the concatenation
\* of the tables of the files, in list order, with every row that equals an
\* earlier row in all fields removed: the rows left keep their order, no two
\* rows of the table are equal, and the partitions fuzzy_match returns hold
\* as many rows as that table, which can be fewer than were extracted.
C26_MatcherInputDeduplicated ==
    Merged =>
        /\ Len(df) = Cardinality(FirstOccurrences)
        /\ \A k \in DOMAIN df : df[k] = Extracted[Survivor(k)]
        /\ \A a \in DOMAIN df : \A b \in DOMAIN df : a # b => df[a] # df[b]
        /\ pc = "fm_ret" =>
              Len(matched) + Len(suspected) + Len(unilateral) = Len(df)

\* three files, the third a copy of the first: two rows reach the partitions
C26_Witness ==
    /\ Merged
    /\ pc = "fm_ret"
    /\ Len(Extracted) = 3
    /\ Extracted[1] = Extracted[3]
    /\ Extracted[1] # Extracted[2]
    /\ Len(matched) + Len(suspected) + Len(unilateral) = 2

-----------------------------------------------------------------------------
(* fuzzy_match over a table and over its time buckets *)

\* the rows at the positions S lie further than the time window from all
\* other rows of the table (line 268 rejects every pair across the two)
Separated(t, S) ==
    \A a \in S : \A b \in DOMAIN t \ S :
        Abs(Val(t[a].timestamp) - Val(t[b].timestamp))
            > time_window_minutes * 60

\* the positions S in the order of the table
InOrder(S) ==
    [k \in 1..Cardinality(S) |->
        CHOOSE n \in S : Cardinality({m \in S : m < n}) = k - 1]

\* the ways to split a table into two buckets
Splits(t) ==
    {S \in SUBSET DOMAIN t : S # {} /\ S # DOMAIN t /\ Separated(t, S)}

\* fuzzy_match(df) is called with the rows at the next pending positions
BucketRun ==
    /\ pc = "bk_next"
    /\ pending # <<>>
    /\ df' = [k \in DOMAIN Head(pending) |-> whole[Head(pending)[k]]]
    /\ pc' = "fm_call"
    /\ UNCHANGED <<entry, error, i, j, matched_indices, suspected_indices,
                   matched, suspected, unilateral, checked, result,
                   config_vars, amount_vars, extract_vars, batch_vars,
                   whole, pending, outcomes>>

\* what the run that has just ended gave each row: the match_status of the
\* partition that holds it (lines 289-294), or the exception
Outcome ==
    [p \in Range(Head(pending)) |->
        IF pc = "raised" THEN error
        ELSE LET k == CHOOSE k \in DOMAIN Head(pending) : Head(pending)[k] = p
                 parts == matched \o suspected \o unilateral
                 m == CHOOSE m \in DOMAIN parts : parts[m].index = k - 1
             IN  parts[m].match_status]

\* the run has returned or raised; its outcome is kept for comparison
BucketRecord ==
    /\ pc \in {"fm_ret", "raised"}
    /\ pending # <<>>
    /\ outcomes' = Append(outcomes, Outcome)
    /\ pending' = Tail(pending)
    /\ pc' = IF Tail(pending) = <<>> THEN "bk_done" ELSE "bk_next"
    /\ error' = ""
    /\ UNCHANGED <<entry, matcher, checked, result, whole,
                   config_vars, amount_vars, extract_vars, batch_vars>>

InitBuckets ==
    /\ entry = "fuzzy_match"
    /\ pc = "bk_next"
    /\ error = ""
    /\ whole \in Tables
    /\ \E S \in Splits(whole) :
          pending = <<InOrder(DOMAIN whole), InOrder(S),
                      InOrder(DOMAIN whole \ S)>>
    /\ outcomes = <<>>
    /\ MatcherIdle
    /\ AmountIdle
    /\ ExtractIdle
    /\ BatchIdle
    /\ ConfigIdle

NextBuckets ==
    \/ BucketRun
    \/ FuzzyMatchStep
    \/ BucketRecord

SpecBuckets == InitBuckets /\ [][NextBuckets]_vars

\* C21: when a table is split into two groups whose rows lie further apart
\* than the time window, fuzzy_match run on each group, rows in their
\* original order, gives every row the status that fuzzy_match run on the
\* whole table gives it.
C21_BucketsPreserveResults ==
    pc = "bk_done" =>
        \A r \in 2..Len(outcomes) : \A p \in DOMAIN outcomes[r] :
            outcomes[r][p] = outcomes[1][p]


====
